---- MODULE Spec2Model ----
(***************************************************************************)
(* Model of plot_vehicle_ratios (src/pigmodule.py, lines 34-93): the       *)
(* group / ratio / reindex / exclude / interpolate / plot sequence.        *)
(*                                                                         *)
(* A DataFrame is modelled as its rows.  The input table is a bag of rows  *)
(* (groupby sorts its keys, so the input row order is never observed); the *)
(* tables the function builds are sequences of rows in index order.        *)
(* A ratio is an exact fraction <<num, den>> in lowest terms; NaN (absent) *)
(* is <<0, 0>>.  Floating-point rounding is not modelled.                  *)
(***************************************************************************)
EXTENDS Integers, Sequences, FiniteSets, Bags

\* ---------------------------------------------------------------- bounds
MaxRows  == 2      \* rows of the input table
MaxSpan  == 3      \* years run from DefaultStartYear to DefaultStartYear + MaxSpan
MaxCount == 2      \* largest vehicle_type count of one input row
MaxTotal == 2      \* largest total_vehicles of one input row

\* default of the start_year parameter
DefaultStartYear == 2000

\* road names in the order groupby's sorted keys give them
RoadNames == <<"A", "B">>

Years == DefaultStartYear .. (DefaultStartYear + MaxSpan)

Roads == {RoadNames[i] : i \in DOMAIN RoadNames}

\* one row of the input table; vt is the column named by vehicle_type
InputRows ==
  [road_name : Roads, year : Years, vt : 0 .. MaxCount, total_vehicles : 1 .. MaxTotal]

VARIABLES
  data,           \* the input table (argument data)
  start_year,     \* argument start_year
  end_year,       \* argument end_year
  exclude_years,  \* argument exclude_years
  grouped,        \* yearly_totals after the ratio column is added (line 58)
  reindexed,      \* yearly_totals after the reindex (line 68)
  blanked,        \* yearly_totals after the excluded years are set to None (line 71)
  yearly_totals,  \* yearly_totals after the interpolation (line 76)
  plotted,        \* the road types a line was plotted for, in order (lines 80-82)
  pc              \* "input": the caller is building the table; "done": the call returned

vars == <<data, start_year, end_year, exclude_years, grouped, reindexed, blanked,
          yearly_totals, plotted, pc>>

\* ------------------------------------------------------------ arithmetic
NaN == <<0, 0>>

IsNaN(x) == x[2] = 0

RECURSIVE GCD(_, _)
GCD(a, b) == IF b = 0 THEN a ELSE GCD(b, a % b)

\* the fraction n/d (d > 0) in lowest terms
Frac(n, d) == LET g == GCD(n, d) IN <<n \div g, d \div g>>

\* the operands of the division swapped
DivideSwapped(n, d) == Frac(d, n)

\* Series / Series for one element: vt / total_vehicles
Divide(n, d) == Frac(n, d)

\* the step not divided by the width of the gap: a + (b - a) * k
LerpUndivided(a, b, k, n) ==
  Frac(a[1] * b[2] + (b[1] * a[2] - a[1] * b[2]) * k, a[2] * b[2])

\* the point k steps after a on the straight line from a to b, n steps apart
Lerp(a, b, k, n) ==
  Frac(a[1] * b[2] * (n - k) + b[1] * a[2] * k, a[2] * b[2] * n)

\* ---------------------------------------------------------------- groupby
\* agg 'first' in place of 'sum': one row of the group stands for the group
SumRowsFirst(S, d, col) == IF S = {} THEN 0 ELSE (CHOOSE r \in S : TRUE)[col]

\* agg 'sum': the total of column col over the rows S of table d
RECURSIVE SumRows(_, _, _)
SumRows(S, d, col) ==
  IF S = {} THEN 0
  ELSE LET r == CHOOSE r \in S : TRUE
       IN  d[r] * r[col] + SumRows(S \ {r}, d, col)

\* the rows of table d in the group (road, year)
GroupOf(d, road, year) ==
  {r \in BagToSet(d) : r.road_name = road /\ r.year = year}

\* the sum of column col over the group (road, year)
GroupSum(d, road, year, col) == SumRows(GroupOf(d, road, year), d, col)

\* every (road, year) key, sorted by road then year
NumYears == Cardinality(Years)

SortedKeys ==
  [i \in 1 .. (Len(RoadNames) * NumYears) |->
     <<RoadNames[((i - 1) \div NumYears) + 1], DefaultStartYear + ((i - 1) % NumYears)>>]

HasGroup(d, key) == GroupOf(d, key[1], key[2]) # {}

\* data.groupby(['road_name', 'year']).agg(sum).reset_index(), then the ratio column
GroupBy(d) ==
  LET keys == SelectSeq(SortedKeys, LAMBDA k : HasGroup(d, k))
  IN  [i \in 1 .. Len(keys) |->
         LET vt == GroupSum(d, keys[i][1], keys[i][2], "vt")
             tv == GroupSum(d, keys[i][1], keys[i][2], "total_vehicles")
         IN  [road_name |-> keys[i][1], year |-> keys[i][2],
              vt |-> vt, total_vehicles |-> tv, ratio |-> Divide(vt, tv)]]

\* ---------------------------------------------------------------- reindex
\* the range taken from the smaller to the larger year, whatever their order
AllYearsEitherOrder(s, e) ==
  IF s > e THEN [i \in 1 .. (s - e + 1) |-> e + i - 1]
  ELSE [i \in 1 .. (e - s + 1) |-> s + i - 1]

\* range(start_year, end_year + 1) as a sequence
AllYears(s, e) == IF s > e THEN <<>> ELSE [i \in 1 .. (e - s + 1) |-> s + i - 1]

\* yearly_totals['road_name'].unique(): first occurrences, in row order
RECURSIVE Unique(_)
Unique(names) ==
  IF names = <<>> THEN <<>>
  ELSE LET front == Unique(SubSeq(names, 1, Len(names) - 1))
           last  == names[Len(names)]
       IN  IF \E i \in DOMAIN front : front[i] = last THEN front
           ELSE Append(front, last)

RoadTypes(tbl) == Unique([i \in DOMAIN tbl |-> tbl[i].road_name])

\* pd.MultiIndex.from_product([road_types, all_years])
FromProduct(roads, years) ==
  [i \in 1 .. (Len(roads) * Len(years)) |->
     <<roads[((i - 1) \div Len(years)) + 1], years[((i - 1) % Len(years)) + 1]>>]

\* only the index entries that have a row are kept (an inner join)
ReindexDroppingMissing(tbl, index) ==
  LET found == SelectSeq(index, LAMBDA e :
                 \E j \in DOMAIN tbl : tbl[j].road_name = e[1] /\ tbl[j].year = e[2])
  IN  [i \in 1 .. Len(found) |->
         LET j == CHOOSE j \in DOMAIN tbl :
                    tbl[j].road_name = found[i][1] /\ tbl[j].year = found[i][2]
         IN  [road_name |-> found[i][1], year |-> found[i][2], ratio |-> tbl[j].ratio]]

\* reindex(index, method='ffill'): an entry without a row takes the ratio of
\* the road's latest earlier row
ReindexPadded(tbl, index) ==
  [i \in 1 .. Len(index) |->
     LET earlier == {j \in DOMAIN tbl :
                       tbl[j].road_name = index[i][1] /\ tbl[j].year <= index[i][2]}
     IN  [road_name |-> index[i][1], year |-> index[i][2],
          ratio |-> IF earlier = {} THEN NaN
                    ELSE tbl[CHOOSE j \in earlier :
                               \A k \in earlier : tbl[k].year <= tbl[j].year].ratio]]

\* set_index(['road_name', 'year']).reindex(index).reset_index(): one row per
\* index entry, the ratio of the matching row or NaN.  (The vt and
\* total_vehicles columns are carried along by the code but never read again.)
Reindex(tbl, index) ==
  [i \in 1 .. Len(index) |->
     LET hit == {j \in DOMAIN tbl :
                   tbl[j].road_name = index[i][1] /\ tbl[j].year = index[i][2]}
     IN  [road_name |-> index[i][1], year |-> index[i][2],
          ratio |-> IF hit = {} THEN NaN ELSE tbl[CHOOSE j \in hit : TRUE].ratio]]

\* ---------------------------------------------------------------- exclude
\* the assignment left out
ExcludeYearsSkipped(tbl, excl) == tbl

\* yearly_totals.loc[yearly_totals['year'].isin(exclude_years), ratio] = None
ExcludeYears(tbl, excl) ==
  [i \in DOMAIN tbl |->
     IF tbl[i].year \in excl THEN [tbl[i] EXCEPT !.ratio = NaN] ELSE tbl[i]]

\* ------------------------------------------------------------ interpolate
\* limit_direction='both': the NaNs before the first valid value take it
InterpolateSeriesBothWays(s) ==
  [i \in DOMAIN s |->
     IF ~IsNaN(s[i]) THEN s[i]
     ELSE LET before == {j \in DOMAIN s : j < i /\ ~IsNaN(s[j])}
              after  == {j \in DOMAIN s : j > i /\ ~IsNaN(s[j])}
          IN  IF before = {} /\ after = {} THEN NaN
              ELSE IF before = {} THEN s[CHOOSE j \in after : \A k \in after : j <= k]
              ELSE LET p == CHOOSE j \in before : \A k \in before : k <= j
                   IN  IF after = {} THEN s[p]
                       ELSE LET q == CHOOSE j \in after : \A k \in after : j <= k
                            IN  Lerp(s[p], s[q], i - p, q - p)]

\* Series.interpolate(method='linear') with its defaults: positions are
\* equally spaced, gaps between two valid values are filled linearly, NaNs
\* before the first valid value are kept, NaNs after the last valid value
\* take the last valid value (limit_direction='forward').
InterpolateSeries(s) ==
  [i \in DOMAIN s |->
     IF ~IsNaN(s[i]) THEN s[i]
     ELSE LET before == {j \in DOMAIN s : j < i /\ ~IsNaN(s[j])}
              after  == {j \in DOMAIN s : j > i /\ ~IsNaN(s[j])}
          IN  IF before = {} THEN NaN
              ELSE LET p == CHOOSE j \in before : \A k \in before : k <= j
                   IN  IF after = {} THEN s[p]
                       ELSE LET q == CHOOSE j \in after : \A k \in after : j <= k
                            IN  Lerp(s[p], s[q], i - p, q - p)]

\* the positions of the rows of one road, ascending
GroupIndex(tbl, road) ==
  SelectSeq([i \in DOMAIN tbl |-> i], LAMBDA i : tbl[i].road_name = road)

\* the groupby left out: the ratio column is interpolated as one series
InterpolateWholeColumn(tbl) ==
  [i \in DOMAIN tbl |->
     [tbl[i] EXCEPT !.ratio = InterpolateSeries([k \in DOMAIN tbl |-> tbl[k].ratio])[i]]]

\* groupby('road_name')[ratio].transform(lambda x: x.interpolate(method='linear')):
\* the ratios of each road, in row order, are interpolated on their own and
\* put back at their rows
Interpolate(tbl) ==
  [i \in DOMAIN tbl |->
     LET idx    == GroupIndex(tbl, tbl[i].road_name)
         series == [k \in DOMAIN idx |-> tbl[idx[k]].ratio]
         pos    == CHOOSE k \in DOMAIN idx : idx[k] = i
     IN  [tbl[i] EXCEPT !.ratio = InterpolateSeries(series)[pos]]]

\* ------------------------------------------------------------- the call
\* the table plot_vehicle_ratios plots, as a function of its arguments
RatioSeries(d, s, e, excl) ==
  LET g == GroupBy(d)
  IN  Interpolate(ExcludeYears(Reindex(g, FromProduct(RoadTypes(g), AllYears(s, e))), excl))

Init ==
  /\ data = EmptyBag
  /\ start_year = DefaultStartYear
  /\ end_year = DefaultStartYear
  /\ exclude_years = {}
  /\ grouped = <<>>
  /\ reindexed = <<>>
  /\ blanked = <<>>
  /\ yearly_totals = <<>>
  /\ plotted = <<>>
  /\ pc = "input"

\* the caller puts one more row into the table it will pass
AddRow(row) ==
  /\ pc = "input"
  /\ BagCardinality(data) < MaxRows
  /\ data' = data (+) SetToBag({row})
  /\ UNCHANGED <<start_year, end_year, exclude_years, grouped, reindexed, blanked,
                 yearly_totals, plotted, pc>>

\* plot_vehicle_ratios(data, vehicle_type, s, e, excl), from entry to return
PlotVehicleRatios(s, e, excl) ==
  /\ pc = "input"
  /\ start_year' = s
  /\ end_year' = e
  /\ exclude_years' = excl
  /\ grouped' = GroupBy(data)
  /\ reindexed' = Reindex(grouped', FromProduct(RoadTypes(grouped'), AllYears(s, e)))
  /\ blanked' = ExcludeYears(reindexed', excl)
  /\ yearly_totals' = Interpolate(blanked')
  /\ plotted' = RoadTypes(yearly_totals')
  /\ pc' = "done"
  /\ UNCHANGED data

Next ==
  \/ \E row \in InputRows : AddRow(row)
  \/ \E s \in Years, e \in Years, excl \in SUBSET Years : PlotVehicleRatios(s, e, excl)

Spec == Init /\ [][Next]_vars

\* ------------------------------------------------------ reading the state
Done == pc = "done"

\* the years start_year .. end_year of the call
RangeYears == start_year .. end_year

\* the road names that occur in the input table
ObservedRoads == {row.road_name : row \in BagToSet(data)}

\* the input rows of one (road, year), and a column's total over rows
CellRows(d, r, y) == {row \in BagToSet(d) : row.road_name = r /\ row.year = y}

RECURSIVE ColumnTotal(_, _, _)
ColumnTotal(d, S, col) ==
  IF S = {} THEN 0
  ELSE LET row == CHOOSE row \in S : TRUE
       IN  CopiesIn(row, d) * row[col] + ColumnTotal(d, S \ {row}, col)

RawVt(r, y) == ColumnTotal(data, CellRows(data, r, y), "vt")

RawTotal(r, y) == ColumnTotal(data, CellRows(data, r, y), "total_vehicles")

\* (r, y) has a ratio of its own: in range, not excluded, with input rows
Known(r, y) ==
  /\ y \in RangeYears
  /\ y \notin exclude_years
  /\ CellRows(data, r, y) # {}

\* the rows of table tbl for (r, y), and the ratio of the one there is
RowsAt(tbl, r, y) == {i \in DOMAIN tbl : tbl[i].road_name = r /\ tbl[i].year = y}

RatioAt(tbl, r, y) ==
  IF RowsAt(tbl, r, y) = {} THEN NaN ELSE tbl[CHOOSE i \in RowsAt(tbl, r, y) : TRUE].ratio

Out(r, y) == RatioAt(yearly_totals, r, y)

\* the fraction x is the number n/d
IsFraction(x, n, d) == x[2] > 0 /\ x[1] * d = n * x[2]

\* x is the point at year y of the straight line through the raw ratios of
\* road r at the years y0 and y1: a + (b - a) * (y - y0) / (y1 - y0)
OnLine(x, r, y0, y1, y) ==
  IsFraction(x,
             RawVt(r, y0) * RawTotal(r, y1) * (y1 - y) + RawVt(r, y1) * RawTotal(r, y0) * (y - y0),
             RawTotal(r, y0) * RawTotal(r, y1) * (y1 - y0))

\* y0 and y1 are known years of road r with no known year between them
Neighbours(r, y0, y1) ==
  /\ y0 < y1
  /\ Known(r, y0)
  /\ Known(r, y1)
  /\ \A z \in RangeYears : (y0 < z /\ z < y1) => ~Known(r, z)

\* x <= y for two fractions
Leq(x, y) == x[1] * y[2] <= y[1] * x[2]

Max0(n) == IF n < 0 THEN 0 ELSE n

\* the rows of d kept by a test on the row
Restrict(d, Keep(_)) ==
  LET S == {row \in BagToSet(d) : Keep(row)} IN [row \in S |-> d[row]]

\* the table is the complete grid of the observed roads and the years of the range
CompleteGrid(tbl) ==
  /\ \A r \in ObservedRoads : \A y \in RangeYears : Cardinality(RowsAt(tbl, r, y)) = 1
  /\ \A i \in DOMAIN tbl : tbl[i].road_name \in ObservedRoads /\ tbl[i].year \in RangeYears

\* ------------------------------------------------------------------ claims

\* C1 as stated: after the call the reindexed table (and the table plotted)
\* holds exactly one row per (observed road, year of the range), no other row,
\* and so exactly (end_year - start_year + 1) * |road_names| rows.
C1_GridRowCountAsStated ==
  Done =>
    /\ CompleteGrid(reindexed)
    /\ CompleteGrid(yearly_totals)
    /\ Len(reindexed) = (end_year - start_year + 1) * Cardinality(ObservedRoads)
    /\ Len(yearly_totals) = (end_year - start_year + 1) * Cardinality(ObservedRoads)

\* C1 amended: the grid is complete as stated, and the number of rows is
\* max(0, end_year - start_year + 1) * |road_names|: an empty range of any
\* width gives zero rows, never a negative count.
C1_CompleteGrid ==
  Done =>
    /\ CompleteGrid(reindexed)
    /\ CompleteGrid(yearly_totals)
    /\ Len(reindexed) = Max0(end_year - start_year + 1) * Cardinality(ObservedRoads)
    /\ Len(yearly_totals) = Max0(end_year - start_year + 1) * Cardinality(ObservedRoads)

\* a grid with a road whose records all lie outside the range and with an
\* excluded year inside the range
C1_Witness ==
  /\ Done
  /\ start_year <= end_year
  /\ exclude_years \cap RangeYears # {}
  /\ \E r \in ObservedRoads :
       /\ \A y \in RangeYears : CellRows(data, r, y) = {}
       /\ \A y \in RangeYears : Cardinality(RowsAt(reindexed, r, y)) = 1

\* C2 as stated: an absent ratio with no known ratio of its road on one side
\* (before it, or after it) is still absent in the output; in particular a
\* trailing gap stays absent.
C2_NoExtrapolation ==
  Done =>
    \A r \in ObservedRoads : \A y \in RangeYears :
      (/\ ~Known(r, y)
       /\ \/ \A z \in RangeYears : z < y => ~Known(r, z)
          \/ \A z \in RangeYears : z > y => ~Known(r, z))
      => IsNaN(Out(r, y))

\* C3: a year of the range with no known ratio at or before it (for its
\* road) is absent in the output: nothing is extrapolated backward.
C3_NoBackwardExtrapolation ==
  Done =>
    \A r \in ObservedRoads : \A y \in RangeYears :
      (\A z \in RangeYears : z <= y => ~Known(r, z)) => IsNaN(Out(r, y))

\* a leading gap followed by a known ratio, left absent
C3_Witness ==
  /\ Done
  /\ \E r \in ObservedRoads : \E y \in RangeYears :
       /\ y > start_year
       /\ Known(r, y)
       /\ \A z \in RangeYears : z < y => ~Known(r, z)
       /\ IsNaN(Out(r, start_year))

\* C4: between two known ratios a at y0 and b at y1 of one road, with no
\* known ratio in between, the output at every year y of the gap is
\* a + (b - a) * (y - y0) / (y1 - y0).
C4_LinearInYear ==
  Done =>
    \A r \in ObservedRoads : \A y0 \in RangeYears : \A y1 \in RangeYears :
      Neighbours(r, y0, y1) =>
        \A y \in RangeYears : (y0 < y /\ y < y1) => OnLine(Out(r, y), r, y0, y1, y)

\* a gap of two years between two different known ratios, filled
C4_Witness ==
  /\ Done
  /\ \E r \in ObservedRoads : \E y0 \in RangeYears : \E y1 \in RangeYears :
       /\ Neighbours(r, y0, y1)
       /\ y1 = y0 + 3
       /\ Out(r, y0) # Out(r, y1)
       /\ ~IsNaN(Out(r, y0 + 1))
       /\ ~IsNaN(Out(r, y0 + 2))
       /\ Out(r, y0 + 1) # Out(r, y0 + 2)

\* the input without the rows of excluded years
WithoutExcluded == Restrict(data, LAMBDA row : row.year \notin exclude_years)

C6_RatioOfSums ==
  Done =>
    \A r \in ObservedRoads : \A y \in RangeYears :
      Known(r, y) => IsFraction(Out(r, y), RawVt(r, y), RawTotal(r, y))

\* a group of two rows with different totals whose ratio of sums is not the
\* mean of the two rows' ratios
C6_Witness ==
  /\ Done
  /\ \E r \in ObservedRoads : \E y \in RangeYears :
       /\ Known(r, y)
       /\ \E a \in CellRows(data, r, y) : \E b \in CellRows(data, r, y) :
            /\ a.total_vehicles # b.total_vehicles
            /\ BagCardinality(data) = 2
            \* mean of a.vt/a.total and b.vt/b.total, against (a.vt+b.vt)/(a.total+b.total)
            /\ (a.vt * b.total_vehicles + b.vt * a.total_vehicles)
                  * (a.total_vehicles + b.total_vehicles)
               # 2 * a.total_vehicles * b.total_vehicles * (a.vt + b.vt)
       /\ ~IsNaN(Out(r, y))

\* the rows of one road
OnlyRoad(r) == Restrict(data, LAMBDA row : row.road_name = r)

\* C7: the output of road r is the output of the call on the rows of road r
\* alone: the rows of the other roads never reach it.
C7_RoadsIndependent ==
  Done =>
    \A r \in ObservedRoads : \A y \in RangeYears :
      Out(r, y) = RatioAt(RatioSeries(OnlyRoad(r), start_year, end_year, exclude_years), r, y)

\* road B starts with a gap right after road A, whose last year has a ratio
C7_Witness ==
  /\ Done
  /\ ObservedRoads = Roads
  /\ start_year <= end_year
  /\ ~IsNaN(Out(RoadNames[1], end_year))
  /\ IsNaN(Out(RoadNames[2], start_year))
  /\ \E y \in RangeYears : Known(RoadNames[2], y)

\* C8 as stated: every ratio of the output that is not absent lies in [0, 1]
\* (every input row has vt >= 0 and total_vehicles > 0).
C8_RatioInUnitIntervalAsStated ==
  Done =>
    \A i \in DOMAIN yearly_totals :
      \/ IsNaN(yearly_totals[i].ratio)
      \/ Leq(<<0, 1>>, yearly_totals[i].ratio) /\ Leq(yearly_totals[i].ratio, <<1, 1>>)

\* every group's vt sum is at most its total_vehicles sum
CountsWithinTotals ==
  \A r \in Roads : \A y \in Years : RawVt(r, y) <= RawTotal(r, y)

\* C8 amended: when, besides, the vt sum of every observed group is at most
\* its total_vehicles sum, every ratio of the output that is not absent lies
\* in [0, 1].
C8_RatioInUnitInterval ==
  (Done /\ CountsWithinTotals) =>
    \A i \in DOMAIN yearly_totals :
      \/ IsNaN(yearly_totals[i].ratio)
      \/ Leq(<<0, 1>>, yearly_totals[i].ratio) /\ Leq(yearly_totals[i].ratio, <<1, 1>>)

\* raw ratios 0 and 1 with an interpolated ratio strictly between them
C8_Witness ==
  /\ Done
  /\ CountsWithinTotals
  /\ \E i \in DOMAIN yearly_totals : yearly_totals[i].ratio = <<0, 1>>
  /\ \E i \in DOMAIN yearly_totals : yearly_totals[i].ratio = <<1, 1>>
  /\ \E i \in DOMAIN yearly_totals :
       /\ IsNaN(reindexed[i].ratio)
       /\ ~IsNaN(yearly_totals[i].ratio)
       /\ yearly_totals[i].ratio \notin {<<0, 1>>, <<1, 1>>}

\* C9: a call with start_year > end_year returns with a table of no rows
\* and no plotted line.
C9_EmptyRange ==
  (Done /\ start_year > end_year) =>
    /\ reindexed = <<>>
    /\ yearly_totals = <<>>
    /\ plotted = <<>>

\* such a call has returned, with rows in the input and an excluded year
C9_Witness ==
  /\ Done
  /\ start_year > end_year
  /\ BagCardinality(data) = MaxRows
  /\ exclude_years # {}
  /\ yearly_totals = <<>>

\* the input rows whose year is in the range
InRangeRows == Restrict(data, LAMBDA row : row.year \in RangeYears)

\* C10: the output is the output of the call on the in-range rows alone, and
\* a road with no in-range row is absent at every year: a row outside the
\* range gives the grid its road and nothing else.
C10_OutOfRangeRowsIgnored ==
  Done =>
    \A r \in ObservedRoads : \A y \in RangeYears :
      /\ Out(r, y) = RatioAt(RatioSeries(InRangeRows, start_year, end_year, exclude_years), r, y)
      /\ (\A z \in RangeYears : CellRows(data, r, z) = {}) => IsNaN(Out(r, y))

\* a road with a row just before start_year, an absent first year and a
\* known later year
C10_Witness ==
  /\ Done
  /\ \E r \in ObservedRoads :
       /\ CellRows(data, r, start_year - 1) # {}
       /\ ~Known(r, start_year)
       /\ \E y \in RangeYears : Known(r, y)
       /\ IsNaN(Out(r, start_year))

====
